---- MODULE Spec2Model ----
(***************************************************************************)
(* State-machine model of the MLQ scheduling simulator:                    *)
(*   src/fcfs.py         FCFS engine                                       *)
(*   src/Round_robin.py  Round Robin engine                                *)
(*   src/mlq.py          MLQ dispatcher                                    *)
(* The Process and PCB classes (process.py, Pcb.py) are imported by the    *)
(* three files but are not part of the sources at hand; their constructor  *)
(* and default field values are modelled from the design document.         *)
(*                                                                         *)
(* Three specifications share the engine actions:                          *)
(*   Spec      an MLQ object: construction, start_processing, get_metrics  *)
(*   SpecRR    a stand-alone RoundRobin(quantum, processes, time) run      *)
(*   SpecFCFS  a stand-alone FCFS(processes, time) run                     *)
(***************************************************************************)
EXTENDS Integers, Sequences, FiniteSets, TLC

VARIABLES
    input,    \* the process descriptors, in file order: <<tag, at, bt, queue>> records
    pcbs,     \* pcbs[k]: the PCB of the process built from input[k]
    mlq,      \* the MLQ object: pc, __queues, __time, the loop index i
    eng,      \* the engine object currently alive (RoundRobin or FCFS), or kind "none"
    slices,   \* history: every slice / execution so far, [p, q, from, to]
    metrics   \* result of MLQ.get_metrics

vars == <<input, pcbs, mlq, eng, slices, metrics>>

----------------------------------------------------------------------------
(* Bounds of the model *)

\* most descriptors in an MLQ input file
MaxProcs == 2
\* most processes handed to a stand-alone engine
MaxEngProcs == 2
\* largest arrival time
MaxAT == 1
\* largest burst time handed to a stand-alone engine
MaxEngBT == 4
\* largest queue number declared in an MLQ input file
MaxQueueNo == 4
\* largest start time of a stand-alone engine
MaxStart == 1
\* largest quantum of a stand-alone Round Robin engine
MaxQuantum == 3

(* Program constants *)

\* quantum of queue 1
QuantumQ1 == 3
\* quantum of queue 2
QuantumQ2 == 5
\* the value of an unset PCB time field; RT < 0 is read as "unset" by the RR engine
Unset == -1

----------------------------------------------------------------------------
(* Tags.  A tag is a sequence of characters; the MLQ input files name the   *)
(* processes p1, p2, ... in file order.                                     *)

Digits == <<"0", "1", "2", "3", "4", "5", "6", "7", "8", "9">>

IsDigit(c) == \E d \in 1..10 : Digits[d] = c

DigitVal(c) == (CHOOSE d \in 1..10 : Digits[d] = c) - 1

\* code points of the characters used in tags (str comparison is by code point)
Code(c) ==
    CASE c = "A" -> 65
      [] c = "p" -> 112
      [] c = "q" -> 113
      [] OTHER   -> 48 + DigitVal(c)

\* tag.startswith("p")
StartsWithP(tag) == Len(tag) >= 1 /\ tag[1] = "p"

\* int(s) succeeds on a non-empty run of decimal digits
IntParses(s) == Len(s) >= 1 /\ \A k \in 1..Len(s) : IsDigit(s[k])

RECURSIVE IntOf(_)
IntOf(s) ==
    IF s = <<>> THEN 0
    ELSE 10 * IntOf(SubSeq(s, 1, Len(s) - 1)) + DigitVal(s[Len(s)])

\* tag[1:]
Suffix(tag) == SubSeq(tag, 2, Len(tag))

\* s < t for two str values
RECURSIVE StrLess(_, _)
StrLess(s, t) ==
    IF t = <<>> THEN FALSE
    ELSE IF s = <<>> THEN TRUE
    ELSE IF Code(s[1]) # Code(t[1]) THEN Code(s[1]) < Code(t[1])
    ELSE StrLess(Tail(s), Tail(t))

\* the tag of the k-th descriptor of a generated input: "p<k>"
TagOf(k) == <<"p", Digits[k + 1]>>

----------------------------------------------------------------------------
(* Process / PCB (design document, sections 3 and 7) *)

\* PCB as created: AT/BT fixed, TE = 0, done = false, the time fields unset.
\* w counts the writes of each field by the setters (history, not program state).
NewPCB(at, bt, queue) ==
    [at |-> at, bt |-> bt, queue |-> queue, te |-> 0, et |-> Unset,
     ct |-> Unset, wt |-> Unset, rt |-> Unset, tat |-> Unset, done |-> FALSE,
     w |-> [ct |-> 0, wt |-> 0, rt |-> 0, tat |-> 0, done |-> 0]]

\* mutant: the constructor accepts any burst time
ProcessAcceptedAnyBT(d) == TRUE

\* Process(tag, at, bt, ...): a burst time <= 0 is rejected at construction
ProcessAccepted(d) == d.bt > 0

set_rt(pcb, v) == [pcb EXCEPT !.rt = v, !.w.rt = @ + 1]
set_wt(pcb, v) == [pcb EXCEPT !.wt = v, !.w.wt = @ + 1]
set_ct(pcb, v) == [pcb EXCEPT !.ct = v, !.w.ct = @ + 1]
set_tat(pcb, v) == [pcb EXCEPT !.tat = v, !.w.tat = @ + 1]
set_te(pcb, v) == [pcb EXCEPT !.te = v]
set_et(pcb, v) == [pcb EXCEPT !.et = v]
set_done(pcb) == [pcb EXCEPT !.done = TRUE, !.w.done = @ + 1]

----------------------------------------------------------------------------
(* The ordering shared by both engines: FCFS._order_queue and              *)
(* RoundRobin.__order_queue are the same code.                             *)

\* key(a) < key(b); numeric: the key is (AT, int(tag[1:])), else (AT, tag)
KeyLess(a, b, numeric) ==
    \/ pcbs[a].at < pcbs[b].at
    \/ /\ pcbs[a].at = pcbs[b].at
       /\ IF numeric THEN IntOf(Suffix(input[a].tag)) < IntOf(Suffix(input[b].tag))
          ELSE StrLess(input[a].tag, input[b].tag)

\* x inserted into the sorted sequence s after every element whose key is not larger
RECURSIVE InsertSorted(_, _, _)
InsertSorted(x, s, numeric) ==
    IF s = <<>> THEN <<x>>
    ELSE IF KeyLess(x, Head(s), numeric) THEN <<x>> \o s
    ELSE <<Head(s)>> \o InsertSorted(x, Tail(s), numeric)

\* list.sort(key=...): a stable sort
RECURSIVE StableSort(_, _)
StableSort(q, numeric) ==
    IF q = <<>> THEN <<>>
    ELSE InsertSorted(q[Len(q)], StableSort(SubSeq(q, 1, Len(q) - 1), numeric), numeric)

\* _order_queue: the queue sorted, or the exception raised
OrderQueue(q) ==
    IF q = <<>> THEN [err |-> "IndexError", queue |-> q]
    ELSE IF StartsWithP(input[q[Len(q)]].tag)
    THEN IF \A k \in 1..Len(q) : IntParses(Suffix(input[q[k]].tag))
         THEN [err |-> "", queue |-> StableSort(q, TRUE)]
         ELSE [err |-> "ValueError", queue |-> q]
    ELSE [err |-> "", queue |-> StableSort(q, FALSE)]

----------------------------------------------------------------------------
(* Round Robin engine (src/Round_robin.py) *)

\* the engine object of both classes; of the fields the one class lacks, the
\* other's default is kept
NoEngine ==
    [kind |-> "none", pc |-> "none", quantum |-> 0, time |-> 0, initial_time |-> 0,
     queue |-> <<>>, started |-> 0, index |-> 0, current |-> 0, next |-> 0, err |-> ""]

\* RoundRobin.__init__(quantum, processes, time)
NewRoundRobin(quantum, processes, time) ==
    [NoEngine EXCEPT !.kind = "rr", !.pc = "new", !.quantum = quantum, !.time = time,
                     !.initial_time = time, !.queue = processes]

\* queue.index(p), 0-based
IndexOf(q, p) == (CHOOSE k \in 1..Len(q) : q[k] = p) - 1

\* __state_restore: the remaining burst
StateRestore(pcb) == pcb.bt - pcb.te

\* mutant: the executed time is that of the last slice only
StateSaveLastSlice(e, pcb) ==
    LET time_excecuted == e.time - e.started
        saved == set_te(set_et(pcb, e.time), time_excecuted)
    IN  IF saved.rt < 0 THEN set_rt(saved, e.started) ELSE saved

\* mutant: the response time is written at every slice
StateSaveRTAlways(e, pcb) ==
    LET time_excecuted == e.time - e.started
        saved == set_te(set_et(pcb, e.time), pcb.te + time_excecuted)
    IN  set_rt(saved, e.started)

\* __state_save
StateSave(e, pcb) ==
    LET time_excecuted == e.time - e.started
        saved == set_te(set_et(pcb, e.time), pcb.te + time_excecuted)
    IN  IF saved.rt < 0 THEN set_rt(saved, e.started) ELSE saved

\* mutant: the times are written but the process is not flagged done
MarkProcessDoneNoFlag(e, pcb) ==
    LET c == set_ct(pcb, e.time)
    IN  set_tat(set_wt(c, c.ct - c.at - c.bt), c.ct - c.at)

\* mutant: the waiting time leaves the burst out
MarkProcessDoneNoBT(e, pcb) ==
    LET c == set_ct(set_done(pcb), e.time)
    IN  set_tat(set_wt(c, c.ct - c.at), c.ct - c.at)

\* __mark_process_done
MarkProcessDone(e, pcb) ==
    LET c == set_ct(set_done(pcb), e.time)
    IN  set_tat(set_wt(c, c.ct - c.at - c.bt), c.ct - c.at)

\* mutant: the departure of a finished process costs one tick of the clock
RECURSIVE RunTicksSwitchCost(_, _, _, _)
RunTicksSwitchCost(i, time, remaining, quantum) ==
    IF i >= quantum THEN [time |-> time, remaining |-> remaining, raised |-> ""]
    ELSE IF remaining - 1 = 0
    THEN [time |-> time + 2, remaining |-> 0, raised |-> "finished"]
    ELSE IF i = quantum - 1
    THEN [time |-> time + 1, remaining |-> remaining - 1, raised |-> "quantum"]
    ELSE RunTicksSwitchCost(i + 1, time + 1, remaining - 1, quantum)

\* mutant: the slice always runs the whole quantum
RECURSIVE RunTicksWholeQuantum(_, _, _, _)
RunTicksWholeQuantum(i, time, remaining, quantum) ==
    IF i >= quantum THEN [time |-> time, remaining |-> remaining, raised |-> ""]
    ELSE IF i = quantum - 1
    THEN [time |-> time + 1, remaining |-> remaining - 1,
          raised |-> IF remaining - 1 <= 0 THEN "finished" ELSE "quantum"]
    ELSE RunTicksWholeQuantum(i + 1, time + 1, remaining - 1, quantum)

\* the for loop of __excecute_process from iteration i on: the clock and the
\* remaining burst when it is left, and why it raised ProcessExpropiatedException
\* ("finished": remaining burst 0, "quantum": last tick of the quantum, "": the
\* loop ended without raising)
RECURSIVE RunTicks(_, _, _, _)
RunTicks(i, time, remaining, quantum) ==
    IF i >= quantum THEN [time |-> time, remaining |-> remaining, raised |-> ""]
    ELSE IF remaining - 1 = 0
    THEN [time |-> time + 1, remaining |-> 0, raised |-> "finished"]
    ELSE IF i = quantum - 1
    THEN [time |-> time + 1, remaining |-> remaining - 1, raised |-> "quantum"]
    ELSE RunTicks(i + 1, time + 1, remaining - 1, quantum)

\* __excecute_process(p): the engine and the PCBs when it is left
ExcecuteProcess(e, P, p) ==
    LET r  == RunTicks(0, e.time, StateRestore(P[p]), e.quantum)
        e1 == [e EXCEPT !.started = e.time, !.index = IndexOf(e.queue, p),
                        !.time = r.time]
    IN  [eng |-> e1,
         raised |-> r.raised,
         pcbs |-> CASE r.raised = "finished" ->
                         [P EXCEPT ![p] = MarkProcessDone(e1, StateSave(e1, P[p]))]
                    [] r.raised = "quantum" -> [P EXCEPT ![p] = StateSave(e1, P[p])]
                    [] OTHER -> P]

\* first not-done process of q at a position in from..to (1-based), 0 if none
FirstNotDone(q, P, from, to) ==
    LET c == {k \in from..to : k <= Len(q) /\ ~P[q[k]].done}
    IN  IF c = {} THEN 0 ELSE q[CHOOSE k \in c : \A j \in c : k <= j]

\* mutant: the scan always starts at the front of the queue
NextProcessFromFront(e, P) ==
    IF e.time = e.initial_time /\ e.queue # <<>> THEN e.queue[1]
    ELSE FirstNotDone(e.queue, P, 1, Len(e.queue))

\* mutant: the scan starts at the process that has just run
NextProcessStaysOn(e, P) ==
    IF e.time = e.initial_time /\ e.queue # <<>> THEN e.queue[1]
    ELSE LET after == FirstNotDone(e.queue, P, e.index + 1, Len(e.queue))
         IN  IF after # 0 THEN after ELSE FirstNotDone(e.queue, P, 1, Len(e.queue))

\* mutant: the scan does not go back to the front of the queue
NextProcessNoWrap(e, P) ==
    IF e.time = e.initial_time /\ e.queue # <<>> THEN e.queue[1]
    ELSE FirstNotDone(e.queue, P, e.index + 2, Len(e.queue))

\* __next_process: the process to run next, 0 for None.  The scan reads
\* queue[index + i + 1] for i = 0, 1, ...; the read past the end raises IndexError
\* before the range is exhausted, and the handler scans from the front.
NextProcess(e, P) ==
    IF e.time = e.initial_time /\ e.queue # <<>> THEN e.queue[1]
    ELSE LET after == FirstNotDone(e.queue, P, e.index + 2, Len(e.queue))
         IN  IF e.time # e.initial_time /\ after # 0 THEN after
             ELSE FirstNotDone(e.queue, P, 1, Len(e.queue))

----------------------------------------------------------------------------
(* FCFS engine (src/fcfs.py) *)

\* FCFS.__init__(processes, time)
NewFCFS(processes, time) ==
    [NoEngine EXCEPT !.kind = "fcfs", !.pc = "new", !.time = time,
                     !.initial_time = time, !.queue = processes]

\* mutant: the waiting time is taken after the burst has been added to the clock
FCFSExcecuteProcessLateWT(e, P) ==
    LET p  == e.queue[e.current + 1]
        t  == e.time + P[p].bt
        c  == set_ct(set_wt(set_rt(P[p], e.time), t - P[p].at), t)
    IN  [eng |-> [e EXCEPT !.time = t, !.current = @ + 1],
         pcbs |-> [P EXCEPT ![p] = set_tat(c, c.ct - c.at)]]

\* mutant: the engine waits for the arrival of the process
FCFSExcecuteProcessIdleWait(e, P) ==
    LET p  == e.queue[e.current + 1]
        s  == IF e.time < P[p].at THEN P[p].at ELSE e.time
        a  == set_wt(set_rt(P[p], s), s - P[p].at)
        t  == s + a.bt
        c  == set_ct(a, t)
    IN  [eng |-> [e EXCEPT !.time = t, !.current = @ + 1],
         pcbs |-> [P EXCEPT ![p] = set_tat(c, c.ct - c.at)]]

\* mutant: the response time is taken after the burst has been added to the clock
FCFSExcecuteProcessLateRT(e, P) ==
    LET p  == e.queue[e.current + 1]
        t  == e.time + P[p].bt
        c  == set_ct(set_wt(set_rt(P[p], t), e.time - P[p].at), t)
    IN  [eng |-> [e EXCEPT !.time = t, !.current = @ + 1],
         pcbs |-> [P EXCEPT ![p] = set_tat(c, c.ct - c.at)]]

\* _excecute_process: the engine and the PCBs after the current process has run
FCFSExcecuteProcess(e, P) ==
    LET p  == e.queue[e.current + 1]
        a  == set_wt(set_rt(P[p], e.time), e.time - P[p].at)
        t  == e.time + a.bt
        c  == set_ct(a, t)
    IN  [eng |-> [e EXCEPT !.time = t, !.current = @ + 1],
         pcbs |-> [P EXCEPT ![p] = set_tat(c, c.ct - c.at)]]

\* FCFS.start_processing run to its end on the ordered queue of e, from
\* iteration e.current of its for loop on
RECURSIVE FCFSRunFrom(_, _)
FCFSRunFrom(e, P) ==
    IF e.current >= Len(e.queue) THEN [eng |-> [e EXCEPT !.pc = "done"], pcbs |-> P]
    ELSE LET x == FCFSExcecuteProcess(e, P) IN FCFSRunFrom(x.eng, x.pcbs)

\* FCFS(processes, time).start_processing() as a whole (processes not empty)
FCFSRun(processes, time, P) ==
    FCFSRunFrom([NewFCFS(processes, time) EXCEPT !.queue = OrderQueue(processes).queue], P)

----------------------------------------------------------------------------
(* Engine actions, shared by the three specifications *)

\* the slice / execution [from, to) of process p appended to the history
Logged(p, from, to) ==
    Append(slices, [p |-> p, q |-> pcbs[p].queue, from |-> from, to |-> to])

\* RoundRobin.start_processing up to its while loop: the queue is ordered and
\* the first process chosen
RRBegin ==
    /\ eng.kind = "rr" /\ eng.pc = "new"
    /\ LET o == OrderQueue(eng.queue)
       IN  IF o.err # ""
           THEN eng' = [eng EXCEPT !.pc = "error", !.err = o.err]
           ELSE \E n \in {NextProcess([eng EXCEPT !.queue = o.queue], pcbs)} :
                  eng' = [eng EXCEPT !.queue = o.queue, !.next = n,
                                     !.pc = IF n = 0 THEN "done" ELSE "running"]
    /\ UNCHANGED <<input, pcbs, mlq, slices, metrics>>

\* one iteration of the while loop: __excecute_process(next_process) and, when
\* it raises ProcessExpropiatedException, the choice of the next process
RRSlice ==
    /\ eng.kind = "rr" /\ eng.pc = "running" /\ eng.next # 0
    /\ \E x \in {ExcecuteProcess(eng, pcbs, eng.next)} :
         \E n \in {IF x.raised = "" THEN eng.next ELSE NextProcess(x.eng, x.pcbs)} :
           /\ eng' = [x.eng EXCEPT !.next = n,
                                   !.pc = IF n = 0 THEN "done" ELSE "running"]
           /\ pcbs' = x.pcbs
           /\ slices' = Logged(eng.next, eng.time, x.eng.time)
    /\ UNCHANGED <<input, mlq, metrics>>

\* FCFS.start_processing up to its for loop: the queue is ordered
FCFSBegin ==
    /\ eng.kind = "fcfs" /\ eng.pc = "new"
    /\ LET o == OrderQueue(eng.queue)
       IN  IF o.err # ""
           THEN eng' = [eng EXCEPT !.pc = "error", !.err = o.err]
           ELSE eng' = [eng EXCEPT !.queue = o.queue, !.pc = "running"]
    /\ UNCHANGED <<input, pcbs, mlq, slices, metrics>>

\* one iteration of the for loop; after the last one _calculate_metrics sums the
\* averages (kept in private fields nothing reads) and start_processing returns
FCFSExecute ==
    /\ eng.kind = "fcfs" /\ eng.pc = "running" /\ eng.current < Len(eng.queue)
    /\ \E x \in {FCFSExcecuteProcess(eng, pcbs)} :
           /\ eng' = [x.eng EXCEPT
                        !.pc = IF x.eng.current >= Len(eng.queue) THEN "done" ELSE "running"]
           /\ pcbs' = x.pcbs
           /\ slices' = Logged(eng.queue[eng.current + 1], eng.time, x.eng.time)
    /\ UNCHANGED <<input, mlq, metrics>>

----------------------------------------------------------------------------
(* MLQ dispatcher (src/mlq.py) *)

NoMLQ == [pc |-> "none", queues |-> <<>>, time |-> 0, i |-> 0]

\* the ids 1..n of the descriptors, in file order
Ids(inp) == [k \in 1..Len(inp) |-> k]

\* max_queues: the highest queue number of the file, 0 for no descriptor
MaxQueues(inp) ==
    IF inp = <<>> THEN 0
    ELSE CHOOSE m \in {inp[k].queue : k \in 1..Len(inp)} :
            \A k \in 1..Len(inp) : inp[k].queue <= m

\* the processes of queue number q, in file order
QueueOf(inp, q) == SelectSeq(Ids(inp), LAMBDA k : inp[k].queue = q)

\* __read_file: one list per queue number 1..max_queues, each process appended
\* to the list of its queue number
ReadFile(inp) == [q \in 1..MaxQueues(inp) |-> QueueOf(inp, q)]

\* MLQ(filename): the processes are built while the file is read; a rejected
\* descriptor leaves no MLQ object
MLQConstruct ==
    /\ mlq.pc = "init"
    /\ IF \A k \in 1..Len(input) : ProcessAccepted(input[k])
       THEN /\ pcbs' = [k \in 1..Len(input) |->
                          NewPCB(input[k].at, input[k].bt, input[k].queue)]
            /\ mlq' = [pc |-> "ready", queues |-> ReadFile(input), time |-> 0, i |-> 0]
       ELSE /\ pcbs' = pcbs
            /\ mlq' = [mlq EXCEPT !.pc = "error"]
    /\ UNCHANGED <<input, eng, slices, metrics>>

\* start_processing is called: the for loop is entered
MLQStart ==
    /\ mlq.pc = "ready"
    /\ mlq' = [mlq EXCEPT !.pc = "loop", !.i = 0]
    /\ UNCHANGED <<input, pcbs, eng, slices, metrics>>

\* an iteration whose queue is empty
MLQSkipEmpty ==
    /\ mlq.pc = "loop" /\ mlq.i < Len(mlq.queues)
    /\ Len(mlq.queues[mlq.i + 1]) = 0
    /\ mlq' = [mlq EXCEPT !.i = @ + 1]
    /\ UNCHANGED <<input, pcbs, eng, slices, metrics>>

\* the quantum of the Round Robin branches i == 0 and i == 1
QuantumOf(i) == IF i = 0 THEN QuantumQ1 ELSE QuantumQ2

\* mutant: every engine is started at time 0
StartTimeZero(m) == 0

\* the start time handed to the engine of an iteration
StartTime(m) == m.time

\* i == 0 and i == 1: a RoundRobin is built on the queue
MLQDispatchRR ==
    /\ mlq.pc = "loop" /\ mlq.i < Len(mlq.queues)
    /\ Len(mlq.queues[mlq.i + 1]) > 0
    /\ mlq.i \in {0, 1}
    /\ eng' = NewRoundRobin(QuantumOf(mlq.i), mlq.queues[mlq.i + 1], StartTime(mlq))
    /\ mlq' = [mlq EXCEPT !.pc = "engine"]
    /\ UNCHANGED <<input, pcbs, slices, metrics>>

\* i == 2: an FCFS is built on the queue
MLQDispatchFCFS ==
    /\ mlq.pc = "loop" /\ mlq.i < Len(mlq.queues)
    /\ Len(mlq.queues[mlq.i + 1]) > 0
    /\ mlq.i = 2
    /\ eng' = NewFCFS(mlq.queues[mlq.i + 1], StartTime(mlq))
    /\ mlq' = [mlq EXCEPT !.pc = "engine"]
    /\ UNCHANGED <<input, pcbs, slices, metrics>>

\* i >= 3: no branch of the if / elif chain is taken
MLQNoBranch ==
    /\ mlq.pc = "loop" /\ mlq.i < Len(mlq.queues)
    /\ Len(mlq.queues[mlq.i + 1]) > 0
    /\ mlq.i \notin {0, 1, 2}
    /\ mlq' = [mlq EXCEPT !.i = @ + 1]
    /\ UNCHANGED <<input, pcbs, eng, slices, metrics>>

\* mutant: the end time of the engine is not taken over
MLQAdoptKeepsTime ==
    /\ mlq.pc = "engine" /\ eng.pc = "done"
    /\ mlq' = [mlq EXCEPT !.pc = "loop", !.i = @ + 1]
    /\ UNCHANGED <<input, pcbs, eng, slices, metrics>>

\* the engine's start_processing has returned: self.__time = engine.get_time()
MLQAdopt ==
    /\ mlq.pc = "engine" /\ eng.pc = "done"
    /\ mlq' = [mlq EXCEPT !.pc = "loop", !.time = eng.time, !.i = @ + 1]
    /\ UNCHANGED <<input, pcbs, eng, slices, metrics>>

\* the for loop ends: start_processing returns
MLQReturn ==
    /\ mlq.pc = "loop" /\ mlq.i >= Len(mlq.queues)
    /\ mlq' = [mlq EXCEPT !.pc = "processed"]
    /\ UNCHANGED <<input, pcbs, eng, slices, metrics>>

RECURSIVE SumSeq(_)
SumSeq(s) == IF s = <<>> THEN 0 ELSE Head(s) + SumSeq(Tail(s))

RECURSIVE Flatten(_)
Flatten(qs) == IF qs = <<>> THEN <<>> ELSE Head(qs) \o Flatten(Tail(qs))

NoMetrics == [status |-> "none", n |-> 0, wt |-> 0, ct |-> 0, rt |-> 0, tat |-> 0]

\* get_metrics: the totals over every process of every queue, then the averages
\* total / num_processes; the division raises ZeroDivisionError for no process.
\* The averages are kept as the totals and the divisor.
GetMetrics(m, P) ==
    LET all == Flatten(m.queues)
        total_wt == SumSeq([k \in 1..Len(all) |-> P[all[k]].wt])
        total_ct == SumSeq([k \in 1..Len(all) |-> P[all[k]].ct])
        total_rt == SumSeq([k \in 1..Len(all) |-> P[all[k]].rt])
        total_tat == SumSeq([k \in 1..Len(all) |-> P[all[k]].tat])
    IN  [status |-> IF Len(all) = 0 THEN "ZeroDivisionError" ELSE "ok",
         n |-> Len(all), wt |-> total_wt, ct |-> total_ct,
         rt |-> total_rt, tat |-> total_tat]

\* main: get_metrics is called after start_processing
MLQGetMetrics ==
    /\ mlq.pc = "processed" /\ metrics.status = "none"
    /\ metrics' = GetMetrics(mlq, pcbs)
    /\ mlq' = [mlq EXCEPT !.pc = IF metrics'.status = "ok" THEN "reported" ELSE "error"]
    /\ UNCHANGED <<input, pcbs, eng, slices>>

----------------------------------------------------------------------------
(* Specifications *)

\* the burst times of an MLQ input file: one the constructor rejects, the
\* shortest, one that outlasts the quantum of queue 1 and one that outlasts the
\* quantum of queue 2
BurstTimes == {0, 1, QuantumQ1 + 1, QuantumQ2 + 1}

\* input is a descriptor list of at most max lines: tags p1, p2, ... in file
\* order, AT in 0..MaxAT, BT in bts, queue number in qs
IsInput(max, bts, qs) ==
    \E n \in 0..max :
      \E f \in [1..n -> [at : 0..MaxAT, bt : bts, queue : qs]] :
        input = [k \in 1..n |-> [tag |-> TagOf(k), at |-> f[k].at, bt |-> f[k].bt,
                                 queue |-> f[k].queue]]

\* an MLQ about to be built on an input file of at most MaxProcs descriptors
Init ==
    /\ IsInput(MaxProcs, BurstTimes, 1..MaxQueueNo)
    /\ pcbs = <<>>
    /\ mlq = [NoMLQ EXCEPT !.pc = "init"]
    /\ eng = NoEngine
    /\ slices = <<>>
    /\ metrics = NoMetrics

Next ==
    \/ MLQConstruct
    \/ MLQStart
    \/ MLQSkipEmpty
    \/ MLQDispatchRR
    \/ MLQDispatchFCFS
    \/ MLQNoBranch
    \/ RRBegin
    \/ RRSlice
    \/ FCFSBegin
    \/ FCFSExecute
    \/ MLQAdopt
    \/ MLQReturn
    \/ MLQGetMetrics

Spec == Init /\ [][Next]_vars

\* input is the list of processes handed to a stand-alone engine: built, so
\* with BT >= 1; Process(tag, at, bt) leaves the queue number at its default
IsEngineInput == IsInput(MaxEngProcs, 1..MaxEngBT, {0})

BuiltPCBs(inp) == [k \in 1..Len(inp) |-> NewPCB(inp[k].at, inp[k].bt, inp[k].queue)]

\* a RoundRobin built on a list of processes, with a quantum and a start time
InitRR ==
    /\ IsEngineInput
    /\ pcbs = BuiltPCBs(input)
    /\ mlq = NoMLQ
    /\ \E quantum \in 1..MaxQuantum, time \in 0..MaxStart :
          eng = NewRoundRobin(quantum, Ids(input), time)
    /\ slices = <<>>
    /\ metrics = NoMetrics

NextRR == RRBegin \/ RRSlice

SpecRR == InitRR /\ [][NextRR]_vars

\* an FCFS built on a list of processes, with a start time
InitFCFS ==
    /\ IsEngineInput
    /\ pcbs = BuiltPCBs(input)
    /\ mlq = NoMLQ
    /\ \E time \in 0..MaxStart : eng = NewFCFS(Ids(input), time)
    /\ slices = <<>>
    /\ metrics = NoMetrics

NextFCFS == FCFSBegin \/ FCFSExecute

SpecFCFS == InitFCFS /\ [][NextFCFS]_vars

\* any of the three programs: an MLQ, a stand-alone RoundRobin, a stand-alone FCFS
InitAny == Init \/ InitRR \/ InitFCFS

SpecAny == InitAny /\ [][Next]_vars

----------------------------------------------------------------------------
(* Vocabulary of the properties *)

Procs == DOMAIN pcbs

\* the process has been dispatched at least once
Dispatched(p) == \E s \in 1..Len(slices) : slices[s].p = p

\* the process has run to its end: its completion time has been written
Completed(p) == pcbs[p].w.ct >= 1

\* every time field of the process has been written
MetricsSet(p) ==
    pcbs[p].w.ct >= 1 /\ pcbs[p].w.wt >= 1 /\ pcbs[p].w.rt >= 1 /\ pcbs[p].w.tat >= 1

\* the step is a slice (Round Robin) or an execution (FCFS) of a process
IsSliceStep == slices' # slices

----------------------------------------------------------------------------
(* C1: strict priority across the queues of an MLQ run.  Whenever a process *)
(* of queue j has been dispatched, every process of every queue i < j has   *)
(* completed, no later than that dispatch; so no slice of queue i follows a *)
(* slice of queue j, and every RT written in queue j is at least every CT   *)
(* of queue i.                                                              *)
C1_StrictPriority ==
    /\ \A a, b \in 1..Len(slices) : slices[a].q < slices[b].q => a < b
    /\ \A s \in 1..Len(slices) : \A p \in Procs :
          pcbs[p].queue < slices[s].q => Completed(p) /\ pcbs[p].ct <= slices[s].from
    /\ \A p, r \in Procs :
          pcbs[p].queue < pcbs[r].queue /\ pcbs[r].w.rt >= 1
             => Completed(p) /\ pcbs[r].rt >= pcbs[p].ct

\* queue 1 took several slices and a process of queue 2 has then been run
C1_Witness ==
    /\ mlq.pc = "processed"
    /\ \E a, b, c \in 1..Len(slices) :
          a < b /\ b < c /\ slices[a].q = 1 /\ slices[b].q = 1 /\ slices[c].q = 2
    /\ \E r \in Procs : pcbs[r].queue = 2 /\ pcbs[r].w.rt >= 1 /\ pcbs[r].rt > 0

(* C2: the dispatcher's clock starts at 0 and never decreases; an engine is  *)
(* started with exactly the end time of the engine run before it (0 for the  *)
(* first), which is the dispatcher's clock; skipping an empty queue changes  *)
(* neither the clock nor any PCB.                                            *)
C2_ClockHandoff ==
    [][/\ mlq'.pc = "ready" => mlq'.time = 0
       /\ mlq'.time >= mlq.time
       /\ (mlq.pc = "loop" /\ mlq'.pc = "engine")
             => /\ eng'.time = eng'.initial_time
                /\ eng'.initial_time = mlq.time
                /\ eng'.initial_time = (IF eng.kind = "none" THEN 0 ELSE eng.time)
       /\ (mlq.pc = "loop" /\ mlq.i < Len(mlq.queues)
             /\ mlq.queues[(IF mlq.i < Len(mlq.queues) THEN mlq.i ELSE 0) + 1] = <<>>)
             => /\ mlq'.time = mlq.time /\ pcbs' = pcbs /\ eng' = eng
                /\ mlq'.i = mlq.i + 1]_vars

\* queue 1 is empty and was skipped, queue 2 ran from 0 and queue 3 is started
\* at the time queue 2 ended
C2_Witness ==
    /\ mlq.pc = "engine" /\ mlq.i = 2
    /\ mlq.queues[1] = <<>> /\ mlq.queues[2] # <<>>
    /\ eng.kind = "fcfs" /\ eng.initial_time > 0 /\ eng.initial_time = mlq.time

(* C3: the policy table covers every declared queue number: queue 1 is run  *)
(* by Round Robin with quantum 3, queue 2 by Round Robin with quantum 5,    *)
(* every queue from 3 on by FCFS, and when start_processing has returned    *)
(* every process of every queue has its CT, WT, RT and TAT written.         *)
C3_PolicyTableTotal ==
    /\ mlq.pc = "engine" =>
          /\ mlq.i = 0 => eng.kind = "rr" /\ eng.quantum = 3
          /\ mlq.i = 1 => eng.kind = "rr" /\ eng.quantum = 5
          /\ mlq.i >= 2 => eng.kind = "fcfs"
    /\ mlq.pc = "processed" => \A p \in Procs : MetricsSet(p)

(* C4: after an FCFS run every process has WT = CT - AT - BT and            *)
(* TAT = CT - AT.                                                           *)
C4_FCFSIdentities ==
    (eng.kind = "fcfs" /\ eng.pc = "done") =>
        \A p \in Procs :
            /\ MetricsSet(p)
            /\ pcbs[p].wt = pcbs[p].ct - pcbs[p].at - pcbs[p].bt
            /\ pcbs[p].tat = pcbs[p].ct - pcbs[p].at

\* a run of two processes from a start time other than 0 has ended
C4_Witness ==
    /\ eng.kind = "fcfs" /\ eng.pc = "done" /\ eng.initial_time > 0
    /\ Len(eng.queue) = 2
    /\ \E p \in Procs : pcbs[p].wt > 0


(* C5: a Round Robin slice of a process whose remaining burst is at most    *)
(* the quantum lasts exactly the remaining burst and leaves the process     *)
(* done with CT = the clock, WT = CT - AT - BT, TAT = CT - AT and TE = BT;  *)
(* a slice of a process whose remaining burst exceeds the quantum lasts     *)
(* exactly the quantum and leaves it not done with TE raised by the quantum.*)
C5_SliceOutcome ==
    [][(eng.kind = "rr" /\ IsSliceStep) =>
          LET p   == eng.next
              rem == pcbs[p].bt - pcbs[p].te
              new == pcbs'[p]
          IN  IF rem <= eng.quantum
              THEN /\ eng'.time = eng.time + rem
                   /\ new.done /\ ~pcbs[p].done
                   /\ new.ct = eng'.time
                   /\ new.wt = new.ct - new.at - new.bt
                   /\ new.tat = new.ct - new.at
                   /\ new.te = new.bt
              ELSE /\ eng'.time = eng.time + eng.quantum
                   /\ ~new.done
                   /\ new.w.ct = 0
                   /\ new.te = pcbs[p].te + eng.quantum
                   /\ new.te < new.bt]_vars

\* a process was preempted at the end of a whole quantum and later finished in
\* a slice shorter than the quantum
C5_Witness ==
    /\ eng.kind = "rr" /\ mlq.pc = "none"
    /\ \E a, b \in 1..Len(slices) :
          /\ a < b /\ slices[a].p = slices[b].p
          /\ slices[a].to - slices[a].from = eng.quantum
          /\ slices[b].to - slices[b].from < eng.quantum
          /\ pcbs[slices[b].p].done
          /\ pcbs[slices[b].p].ct = slices[b].to

(* C6: under every policy a completed process has RT <= CT - BT.            *)
C6_ResponseBeforeLastBurst ==
    \A p \in Procs :
        Completed(p) => /\ pcbs[p].w.rt >= 1
                        /\ pcbs[p].rt >= 0
                        /\ pcbs[p].rt <= pcbs[p].ct - pcbs[p].bt

\* an MLQ run has ended in which two processes of queue 1 took turns, so that
\* each responded strictly before its last burst
C6_Witness ==
    /\ mlq.pc = "processed" /\ Len(mlq.queues) >= 1 /\ Len(mlq.queues[1]) = 2
    /\ \A p \in Procs : /\ Completed(p)
                         /\ pcbs[p].te = pcbs[p].bt
                         /\ pcbs[p].rt < pcbs[p].ct - pcbs[p].bt

\* the time fields a run leaves in a PCB
Times(pcb) == [wt |-> pcb.wt, ct |-> pcb.ct, rt |-> pcb.rt, tat |-> pcb.tat]

\* the largest burst time of the input
MaxBurst == CHOOSE m \in {input[k].bt : k \in 1..Len(input)} :
                \A k \in 1..Len(input) : input[k].bt <= m

(* C7: a Round Robin run whose quantum is at least the largest BT of its    *)
(* (non-empty) queue ends with the WT, CT, RT and TAT of every process, and *)
(* the end time, that an FCFS run of a fresh copy of the queue from the     *)
(* same start time ends with.                                               *)
C7_LargeQuantumIsFCFS ==
    (eng.kind = "rr" /\ eng.pc = "done" /\ input # <<>> /\ eng.quantum >= MaxBurst) =>
        LET f == FCFSRun(Ids(input), eng.initial_time, BuiltPCBs(input))
        IN  /\ eng.time = f.eng.time
            /\ \A p \in Procs : Times(pcbs[p]) = Times(f.pcbs[p])

\* such a run of two processes, sorted against the order they were given in,
\* from a start time other than 0
C7_Witness ==
    /\ eng.kind = "rr" /\ eng.pc = "done" /\ mlq.pc = "none"
    /\ Len(input) = 2 /\ eng.quantum >= MaxBurst /\ eng.initial_time > 0
    /\ eng.queue = <<2, 1>>
    /\ \E p \in Procs : pcbs[p].bt = eng.quantum

\* the ticks the process has been given over the slices of the history
RECURSIVE TicksGiven(_, _)
TicksGiven(p, h) ==
    IF h = <<>> THEN 0
    ELSE (IF Head(h).p = p THEN Head(h).to - Head(h).from ELSE 0) + TicksGiven(p, Tail(h))

(* C8: a Round Robin run on a non-empty queue terminates.  Every dispatch   *)
(* lasts at least one tick and lowers the remaining burst of its process by *)
(* the ticks it lasts, the remaining burst is never negative, so there are  *)
(* never more dispatches than the bursts add up to; and while the loop has  *)
(* not stopped a not-done process is chosen and its slice can be run.  The  *)
(* loop has stopped exactly when no not-done process remains.               *)
C8_RRTerminates ==
    (eng.kind = "rr" /\ input # <<>>) =>
        /\ eng.pc \in {"new", "running", "done"}
        /\ eng.pc = "running" =>
              eng.next # 0 /\ ~pcbs[eng.next].done /\ ENABLED RRSlice
        /\ eng.pc = "done" <=> (eng.pc # "new" /\ \A p \in Procs : pcbs[p].done)
        /\ \A s \in 1..Len(slices) : slices[s].to > slices[s].from
        /\ \A p \in Procs :
              /\ pcbs[p].te = TicksGiven(p, slices)
              /\ pcbs[p].bt - pcbs[p].te >= 0
              /\ pcbs[p].done <=> pcbs[p].bt - pcbs[p].te = 0
        /\ Len(slices) <= SumSeq([p \in 1..Len(pcbs) |-> pcbs[p].bt])

\* a run has ended in which the scan went back to the front of the queue
C8_Witness ==
    /\ eng.kind = "rr" /\ eng.pc = "done" /\ mlq.pc = "none"
    /\ \A p \in Procs : pcbs[p].done
    /\ \E a, b \in 1..Len(slices) :
          b = a + 1 /\ IndexOf(eng.queue, slices[b].p) < IndexOf(eng.queue, slices[a].p)

(* C9: a descriptor with BT <= 0 is rejected when its process is built: no  *)
(* MLQ object comes to exist, no engine is ever started and no process run; *)
(* so no engine holds a process with BT <= 0.                               *)
C9_NonPositiveBurstRejected ==
    /\ (\E k \in 1..Len(input) : input[k].bt <= 0) =>
          /\ mlq.pc \in {"init", "error"}
          /\ eng.kind = "none" /\ slices = <<>> /\ pcbs = <<>>
    /\ \A k \in 1..Len(eng.queue) : pcbs[eng.queue[k]].bt >= 1

\* the construction on a file with a valid and a zero-burst descriptor has failed
C9_Witness ==
    /\ mlq.pc = "error" /\ Len(input) = 2
    /\ input[1].bt >= 1 /\ input[2].bt <= 0
    /\ eng.kind = "none"

(* C10: on an input of no descriptor, construction, start_processing and   *)
(* get_metrics all end without an error.                                    *)
C10_EmptyInputDefined ==
    input = <<>> => mlq.pc # "error" /\ metrics.status \in {"none", "ok"}


----------------------------------------------------------------------------
(* Ordering of queues whose tags are not all p<number> *)

\* tags of either shape: a letter and digits (p or another letter), and a bare name
Tags == {<<"p", "1">>, <<"p", "2">>, <<"p", "1", "0">>,
         <<"q", "2">>, <<"q", "1", "0">>, <<"A">>}

\* an engine of either class built, at time 0, on processes of burst 1 with
\* distinct tags of Tags
InitTags ==
    /\ \E n \in 0..MaxEngProcs :
         \E f \in [1..n -> [tag : Tags, at : 0..MaxAT]] :
            /\ \A j, k \in 1..n : j # k => f[j].tag # f[k].tag
            /\ input = [k \in 1..n |-> [tag |-> f[k].tag, at |-> f[k].at, bt |-> 1,
                                        queue |-> 0]]
    /\ pcbs = BuiltPCBs(input)
    /\ mlq = NoMLQ
    /\ eng \in {NewFCFS(Ids(input), 0), NewRoundRobin(QuantumQ1, Ids(input), 0)}
    /\ slices = <<>>
    /\ metrics = NoMetrics

NextTags == RRBegin \/ RRSlice \/ FCFSBegin \/ FCFSExecute

SpecTags == InitTags /\ [][NextTags]_vars

IsLetter(c) == c \in {"A", "p", "q"}

\* the tag is a letter followed by digits
LetterDigits(tag) == Len(tag) >= 2 /\ IsLetter(tag[1]) /\ IntParses(Suffix(tag))

\* a is not after b in the order the claim describes for the queue q
InClaimedOrder(a, b, q) ==
    \/ pcbs[a].at < pcbs[b].at
    \/ /\ pcbs[a].at = pcbs[b].at
       /\ IF \A k \in 1..Len(q) : LetterDigits(input[q[k]].tag)
          THEN IntOf(Suffix(input[a].tag)) <= IntOf(Suffix(input[b].tag))
          ELSE ~StrLess(input[b].tag, input[a].tag)

(* C11: an engine that has ordered its (non-empty) queue has not failed, and *)
(* the queue is ascending by AT, ties broken by the integer value of the    *)
(* digit suffix when every tag of the queue is a letter followed by digits, *)
(* and by the lexicographic order of the tags otherwise.                    *)
C11_OrderByTagShape ==
    (eng.kind # "none" /\ eng.pc # "new" /\ input # <<>>) =>
        /\ eng.pc # "error"
        /\ \A k \in 1..(Len(eng.queue) - 1) :
              InClaimedOrder(eng.queue[k], eng.queue[k + 1], eng.queue)


----------------------------------------------------------------------------
\* the first not-done process met going round the queue q from the position
\* after i (1-based), the process at i last; 0 if every process is done
CircularNext(q, P, i) ==
    LET n      == Len(q)
        pos(d) == ((i - 1 + d) % n) + 1
        ds     == {d \in 1..n : ~P[q[pos(d)]].done}
    IN  IF ds = {} THEN 0 ELSE q[pos(CHOOSE d \in ds : \A c \in ds : d <= c)]

\* {p1: AT 0, BT 4}, {p2: AT 1, BT 4}
ExampleInput ==
    <<[tag |-> <<"p", "1">>, at |-> 0, bt |-> 4, queue |-> 0],
      [tag |-> <<"p", "2">>, at |-> 1, bt |-> 4, queue |-> 0]>>

(* C12: the first slice of a Round Robin run is given to the process at     *)
(* index 0 of the sorted queue; after every slice the process chosen next   *)
(* is the first not-done one going round the sorted queue from the place    *)
(* after the process that ran, that process last.  The run of p1 (AT 0,     *)
(* BT 4), p2 (AT 1, BT 4) with quantum 2 from time 0 dispatches p1, p2, p1, *)
(* p2, with p1 done at 6 and p2 at 8.                                       *)
C12_CircularScan ==
    [][(eng.kind = "rr" /\ IsSliceStep) =>
          /\ slices = <<>> => eng.next = eng.queue[1]
          /\ eng'.queue = eng.queue
          /\ eng'.next = CircularNext(eng.queue, pcbs', IndexOf(eng.queue, eng.next) + 1)
          /\ (input = ExampleInput /\ eng.quantum = 2 /\ eng.initial_time = 0
                 /\ eng'.pc = "done")
                => /\ [k \in 1..Len(slices') |-> slices'[k].p] = <<1, 2, 1, 2>>
                   /\ pcbs'[1].ct = 6 /\ pcbs'[2].ct = 8]_vars

\* the run of the example has ended
C12_Witness ==
    /\ eng.kind = "rr" /\ eng.pc = "done" /\ mlq.pc = "none"
    /\ input = ExampleInput /\ eng.quantum = 2 /\ eng.initial_time = 0
    /\ Len(slices) = 4 /\ pcbs[1].te = 4 /\ pcbs[2].te = 4


----------------------------------------------------------------------------
\* the process of the last slice logged
LastRun(h) == h[Len(h)].p

TEInRange(P) ==
    \A p \in DOMAIN P : /\ 0 <= P[p].te /\ P[p].te <= P[p].bt
                        /\ P[p].done <=> (P[p].te = P[p].bt)
                        /\ P[p].w.done = (IF P[p].done THEN 1 ELSE 0)

(* C13: under Round Robin (quantum >= 1, BT >= 1) 0 <= TE <= BT holds for   *)
(* every process in every state; a slice strictly increases the TE of the   *)
(* process it runs, by the quantum or by the remaining burst BT - TE if     *)
(* that is less; done is true exactly when TE = BT, is set once and is      *)
(* never reset.                                                             *)
C13_ExecutedTime ==
    [][eng.kind = "rr" =>
          /\ TEInRange(pcbs) /\ TEInRange(pcbs')
          /\ \A p \in Procs : pcbs[p].done => pcbs'[p].done
          /\ IsSliceStep =>
                LET p    == LastRun(slices')
                    left == pcbs[p].bt - pcbs[p].te
                IN  /\ pcbs'[p].te > pcbs[p].te
                    /\ pcbs'[p].te - pcbs[p].te
                          = (IF left < eng.quantum THEN left ELSE eng.quantum)
                    /\ \A o \in Procs \ {p} : pcbs'[o].te = pcbs[o].te]_vars

\* a process has become done with its second slice, another is half way
C13_Witness ==
    /\ eng.kind = "rr" /\ mlq.pc = "none"
    /\ \E p, o \in Procs :
          /\ pcbs[p].done /\ pcbs[p].te = pcbs[p].bt
          /\ Cardinality({k \in 1..Len(slices) : slices[k].p = p}) = 2
          /\ ~pcbs[o].done /\ 0 < pcbs[o].te /\ pcbs[o].te < pcbs[o].bt


----------------------------------------------------------------------------
\* the slices of process p in the log h
SlicesOf(p, h) == {k \in 1..Len(h) : h[k].p = p}

(* C14: under Round Robin the RT of a process is written exactly once, by   *)
(* its first slice, with the clock at which that slice started, whether or  *)
(* not the slice finishes the process; no later slice and no other step     *)
(* changes it, also when the first slice started at clock 0.                *)
C14_ResponseTimeOnce ==
    [][eng.kind = "rr" =>
          IF IsSliceStep
          THEN LET p == LastRun(slices')
               IN  /\ IF SlicesOf(p, slices) = {}
                      THEN /\ pcbs[p].w.rt = 0 /\ pcbs'[p].w.rt = 1
                           /\ pcbs'[p].rt = slices'[Len(slices')].from
                           /\ pcbs'[p].rt = eng.time
                      ELSE /\ pcbs[p].w.rt = 1 /\ pcbs'[p].w.rt = 1
                           /\ pcbs'[p].rt = pcbs[p].rt
                   /\ \A o \in Procs \ {p} :
                         pcbs'[o].rt = pcbs[o].rt /\ pcbs'[o].w.rt = pcbs[o].w.rt
          ELSE \A p \in Procs :
                  pcbs'[p].rt = pcbs[p].rt /\ pcbs'[p].w.rt = pcbs[p].w.rt]_vars

\* a process first dispatched at clock 0 and not finished by that slice has
\* had a second slice, and its RT is still 0
C14_Witness ==
    /\ eng.kind = "rr" /\ mlq.pc = "none"
    /\ \E p \in Procs :
          /\ Cardinality(SlicesOf(p, slices)) >= 2
          /\ slices[1].p = p /\ slices[1].from = 0
          /\ pcbs[p].rt = 0 /\ pcbs[p].w.rt = 1


----------------------------------------------------------------------------
(* C15: after an FCFS run every process of the queue is done and has        *)
(* TE = BT, besides having its RT, WT, CT and TAT set.                      *)
C15_FCFSMarksDone ==
    (eng.kind = "fcfs" /\ eng.pc = "done") =>
        \A k \in 1..Len(eng.queue) :
            LET pcb == pcbs[eng.queue[k]]
            IN  /\ pcb.w.rt = 1 /\ pcb.w.wt = 1 /\ pcb.w.ct = 1 /\ pcb.w.tat = 1
                /\ pcb.done /\ pcb.te = pcb.bt


----------------------------------------------------------------------------
\* the number of writes of CT, WT and TAT of a PCB
CompletionWrites(pcb) == <<pcb.w.ct, pcb.w.wt, pcb.w.tat>>

(* C16: a process marked done under Round Robin is never dispatched again   *)
(* and no later step, of the same run or of the engine of a later MLQ       *)
(* queue, changes its PCB (CT, WT, TAT, TE, RT); under Round Robin CT, WT   *)
(* and TAT are each written once, at the step at which done becomes true,   *)
(* and at no other step.                                                    *)
C16_DoneIsFinal ==
    [][\A p \in Procs :
          /\ pcbs[p].done =>
                /\ pcbs'[p] = pcbs[p]
                /\ IsSliceStep => LastRun(slices') # p
          /\ (~pcbs[p].done /\ pcbs'[p].done) =>
                /\ eng.kind = "rr" /\ IsSliceStep /\ LastRun(slices') = p
                /\ CompletionWrites(pcbs[p]) = <<0, 0, 0>>
                /\ CompletionWrites(pcbs'[p]) = <<1, 1, 1>>
          /\ (eng.kind = "rr" /\ CompletionWrites(pcbs'[p]) # CompletionWrites(pcbs[p]))
                => ~pcbs[p].done /\ pcbs'[p].done]_vars

\* a process done under the Round Robin of its MLQ queue has its PCB as it was
\* left, after the engine of a later queue has run another process
C16_Witness ==
    /\ mlq.pc = "processed"
    /\ \E j, k \in 1..Len(slices) :
          /\ j < k /\ slices[j].q < slices[k].q
          /\ pcbs[slices[j].p].done
          /\ CompletionWrites(pcbs[slices[j].p]) = <<1, 1, 1>>
          /\ pcbs[slices[j].p].ct = slices[j].to


----------------------------------------------------------------------------
(* C17: FCFS runs the processes back to back in sorted order whatever their *)
(* AT: the RT of the first process is the start time, the RT of every later *)
(* process is the CT of the process sorted just before it, and a process    *)
(* whose AT is later than the clock at its dispatch gets RT < AT and a      *)
(* negative WT.                                                             *)
C17_FCFSNoIdleWait ==
    (eng.kind = "fcfs" /\ eng.pc \in {"running", "done"}) =>
        /\ eng.current = Len(slices) /\ eng.current <= Len(eng.queue)
        /\ \A k \in 1..eng.current :
              LET pcb     == pcbs[eng.queue[k]]
                  clock   == IF k = 1 THEN eng.initial_time
                             ELSE pcbs[eng.queue[k - 1]].ct
              IN  /\ slices[k].p = eng.queue[k]
                  /\ pcb.w.rt = 1 /\ pcb.rt = clock
                  /\ pcb.w.ct = 1 /\ pcb.ct = clock + pcb.bt
                  /\ pcb.w.wt = 1
                  /\ pcb.at > clock => (pcb.rt < pcb.at /\ pcb.wt < 0)

\* the run from time 0 has ended; its first process arrived at 1 and has RT 0
\* and WT -1, its second process has the CT of the first as RT
C17_Witness ==
    /\ eng.kind = "fcfs" /\ eng.pc = "done" /\ mlq.pc = "none"
    /\ eng.initial_time = 0 /\ Len(eng.queue) = 2
    /\ pcbs[eng.queue[1]].at = 1 /\ pcbs[eng.queue[1]].rt = 0
    /\ pcbs[eng.queue[1]].wt = -1 /\ pcbs[eng.queue[1]].w.wt = 1
    /\ pcbs[eng.queue[2]].rt = pcbs[eng.queue[1]].ct


----------------------------------------------------------------------------
\* the sum of the BT of the processes of queue q
TotalBurst(q) == SumSeq([k \in 1..Len(q) |-> pcbs[q[k]].bt])

(* C18: both engines are work-conserving: when the run of a non-empty queue *)
(* (all BT >= 1, any start time, any quantum >= 1) has ended, the time of   *)
(* the engine is start time + the sum of the BT of the queue, whatever the  *)
(* arrival times, and the largest CT of the queue is that end time.         *)
C18_WorkConserving ==
    (eng.kind \in {"rr", "fcfs"} /\ eng.pc = "done" /\ eng.queue # <<>>) =>
        /\ eng.time = eng.initial_time + TotalBurst(eng.queue)
        /\ \A k \in 1..Len(eng.queue) :
              pcbs[eng.queue[k]].w.ct = 1 /\ pcbs[eng.queue[k]].ct <= eng.time
        /\ \E k \in 1..Len(eng.queue) : pcbs[eng.queue[k]].ct = eng.time

\* a Round Robin run from time 1 of two processes, one arriving at 1, both
\* preempted at least once, has ended
C18_Witness ==
    /\ eng.kind = "rr" /\ eng.pc = "done" /\ mlq.pc = "none"
    /\ eng.initial_time = 1 /\ Len(eng.queue) = 2
    /\ pcbs[eng.queue[2]].at = 1
    /\ Len(slices) >= 4
    /\ eng.time = 1 + pcbs[1].bt + pcbs[2].bt


----------------------------------------------------------------------------
\* the last slice of process p in the log h, 0 if it has none
LastSliceOf(p, h) ==
    IF SlicesOf(p, h) = {} THEN 0
    ELSE CHOOSE k \in SlicesOf(p, h) : \A j \in SlicesOf(p, h) : j <= k

(* C19: Round Robin is fair within a queue: between two consecutive slices  *)
(* of the same process, every other process that was not done when the      *)
(* first of the two ended is given exactly one slice, and a process that    *)
(* was done then is given none.                                             *)
C19_RoundRobinFair ==
    [][(eng.kind = "rr" /\ IsSliceStep) =>
          LET p == LastRun(slices')
              i == LastSliceOf(p, slices)
          IN  i # 0 =>
                 \A o \in {eng.queue[k] : k \in 1..Len(eng.queue)} \ {p} :
                    LET between == {k \in (i + 1)..Len(slices) : slices[k].p = o}
                    IN  IF TicksGiven(o, SubSeq(slices, 1, i)) < pcbs[o].bt
                        THEN Cardinality(between) = 1
                        ELSE between = {}]_vars

\* a process has had its second slice after the other process of the queue,
\* not done at the end of the first, had one
C19_Witness ==
    /\ eng.kind = "rr" /\ mlq.pc = "none"
    /\ Len(slices) >= 3
    /\ slices[1].p = slices[3].p /\ slices[2].p # slices[1].p
    /\ pcbs[slices[2].p].bt > 0


----------------------------------------------------------------------------
(* C20: under Round Robin a process is dispatched only once it has arrived: *)
(* the clock at the first slice of every process is at least its AT, so     *)
(* after the run RT >= AT and WT >= 0.                                      *)
C20_DispatchedAfterArrival ==
    eng.kind = "rr" =>
        /\ \A k \in 1..Len(slices) : slices[k].from >= pcbs[slices[k].p].at
        /\ eng.pc = "done" =>
              \A k \in 1..Len(eng.queue) :
                 LET pcb == pcbs[eng.queue[k]]
                 IN  pcb.rt >= pcb.at /\ pcb.w.wt = 1 /\ pcb.wt >= 0

====
